---- MODULE Spec2Model ----
\* cc-heatmap (src/cli.mjs): proof-log parser, date range, load pass,
\* aggregation pass (totals, streaks, projects) and heatmap cell generation.
\*
\* Dates.  A JS Date is modelled by the number of its local calendar day; every
\* Date the script builds sits at local noon (today.setHours(12,0,0,0), and
\* setDate keeps the local time of day).  Day 0 is a Sunday.  A date string
\* 'YYYY-MM-DD' is modelled by the number of the calendar day it names, so the
\* lexicographic order of the strings is the order of the numbers.  toYMD goes
\* through toISOString, i.e. through UTC, so it depends on the zone offset tz.
\*
\* JS objects whose Object.entries order is read (projectsByDate[ds],
\* allProjects) are sequences of <<key, value>> pairs kept in
\* OrdinaryOwnPropertyKeys order: canonical array-index keys ascending, then
\* the other string keys in creation order.
EXTENDS Integers, Sequences, FiniteSets, TLC

\* ---------------------------------------------------------------- bounds

\* --weeks N is drawn from 0..MaxWeeks
MaxWeeks == 1
\* log files can exist for the last FileSpan date strings up to todayStr
FileSpan == 2
\* in the aggregation-only specification the last AggSpan dates can be active
AggSpan == 6
\* longest file content given to the parser specification
MaxLines == 4

\* ------------------------------------------------------ program constants

DaysPerWeek == 7
NoonHour == 12
HoursPerDay == 24
CELL == 13
GAP == 3
STEP == CELL + GAP

\* UTC offsets (hours) of the zone the script runs in: JST and NZDT
TzOffsets == {9, 13}
\* the weekday today falls on (local day numbers 0..6, 0 = Sunday)
Todays == 0 .. (DaysPerWeek - 1)
\* project labels written in the logs; "7" is a purely numeric label
Labels == {"alpha", "7"}
\* minute counts written in duration lines
Durations == {0, 30}

VARIABLES
    tz, today, numWeeks, files, rangeStart,
    d, minutesByDate, projectsByDate,
    totalMinutes, activeDays, longestStreak, currentStreak, tempStreak,
    allProjects, datesCursor, topProject,
    cells, col, weekCursor,
    content, lineIdx, sessions, current,
    pc, loadDates, aggDates

envVars == <<tz, today, numWeeks, files, rangeStart>>
loadVars == <<d, minutesByDate, projectsByDate, loadDates>>
aggVars == <<totalMinutes, activeDays, longestStreak, currentStreak, tempStreak,
             allProjects, datesCursor, aggDates>>
gridVars == <<cells, col, weekCursor>>
parseVars == <<content, lineIdx, sessions, current>>
vars == <<envVars, loadVars, aggVars, topProject, gridVars, parseVars, pc>>

\* ----------------------------------------------------------- date helpers

\* date.toISOString().slice(0, 10): the UTC calendar day of local noon of `date`
toYMD(date) ==
    date + ((NoonHour - tz) \div HoursPerDay)

\* new Date(date) ; setDate(getDate() + n)
addDays(date, n) ==
    date + n

\* Date.prototype.getDay(): local weekday, 0 = Sunday
getDay(date) ==
    date % DaysPerWeek

\* rangeStart without the rewind to the previous Sunday
RangeStartNoRewind(t, n) ==
    t - n * DaysPerWeek

\* rangeStart: today - numWeeks * 7 days, rewound to the previous Sunday
RangeStart(t, n) ==
    LET back == t - n * DaysPerWeek
        dow == getDay(back)
    IN  back - dow

todayStr == toYMD(today)
rangeStartStr == toYMD(rangeStart)

\* ------------------------------------------------------------- JS objects

EmptyMap == [k \in {} |-> 0]

\* obj[k] || dflt, for an object modelled as a function
MapGet(m, k, dflt) ==
    IF k \in DOMAIN m THEN m[k] ELSE dflt

MapPut(m, k, v) ==
    [x \in (DOMAIN m) \cup {k} |-> IF x = k THEN v ELSE m[x]]

\* the number a canonical array-index key denotes, -1 for any other key
ArrayIndexOf(k) ==
    IF k = "7" THEN 7 ELSE -1

ObjKeys(o) ==
    {o[i][1] : i \in 1 .. Len(o)}

ObjGet(o, k, dflt) ==
    IF k \in ObjKeys(o)
    THEN LET i == CHOOSE j \in 1 .. Len(o) : o[j][1] = k IN o[i][2]
    ELSE dflt

\* position at which a new key is created in Object.entries order
ObjInsertAt(o, k) ==
    IF ArrayIndexOf(k) < 0
    THEN Len(o) + 1
    ELSE LET later == {j \in 1 .. Len(o) :
                          \/ ArrayIndexOf(o[j][1]) < 0
                          \/ ArrayIndexOf(o[j][1]) > ArrayIndexOf(k)}
         IN  IF later = {} THEN Len(o) + 1
             ELSE CHOOSE j \in later : \A i \in later : j <= i

\* obj[k] = v
ObjSet(o, k, v) ==
    IF k \in ObjKeys(o)
    THEN [i \in 1 .. Len(o) |-> IF o[i][1] = k THEN <<k, v>> ELSE o[i]]
    ELSE LET p == ObjInsertAt(o, k)
         IN  SubSeq(o, 1, p - 1) \o <<(<<k, v>>)>> \o SubSeq(o, p, Len(o))

\* Object.entries(o).sort((a, b) => b[1] - a[1])[0]: the sort is stable, so the
\* result is the first entry, in entries order, that holds the greatest value;
\* <<>> stands for undefined
TopEntry(o) ==
    IF o = <<>> THEN <<>>
    ELSE LET best == {i \in 1 .. Len(o) : \A j \in 1 .. Len(o) : o[j][2] <= o[i][2]}
             i == CHOOSE i \in best : \A j \in best : i <= j
         IN  <<o[i]>>

\* ------------------------------------------------------- proof-log parser

\* A line is modelled by the pattern it matches after trim(): SESSION_HEADER
\* (with its date), DURATION_LINE (with its minute count), WHERE_LINE (with
\* its label), or none of them.
HeaderLine(dt) == [kind |-> "header", date |-> dt, min |-> 0, text |-> ""]
DurationLine(m) == [kind |-> "duration", date |-> 0, min |-> m, text |-> ""]
WhereLine(p) == [kind |-> "where", date |-> 0, min |-> 0, text |-> p]
OtherLine == [kind |-> "other", date |-> 0, min |-> 0, text |-> ""]

\* project: null
null == "null"

\* the loop body with a header dropping the open session instead of pushing it
ParseLineNoPush(st, line) ==
    IF line.kind = "header"
    THEN [sessions |-> st.sessions,
          current |-> <<[date |-> line.date, durationMin |-> 0, project |-> null]>>]
    ELSE IF st.current = <<>> THEN st
    ELSE IF line.kind = "duration"
    THEN [st EXCEPT !.current[1].durationMin = line.min]
    ELSE IF line.kind = "where"
    THEN [st EXCEPT !.current[1].project = line.text]
    ELSE st

\* `current` is <<>> for null and <<session>> for an open session.
\* One pass of the for-loop body of parseProofLog over `line`.
ParseLine(st, line) ==
    IF line.kind = "header"
    THEN [sessions |-> st.sessions \o st.current,
          current |-> <<[date |-> line.date, durationMin |-> 0, project |-> null]>>]
    ELSE IF st.current = <<>> THEN st
    ELSE IF line.kind = "duration"
    THEN [st EXCEPT !.current[1].durationMin = line.min]
    ELSE IF line.kind = "where"
    THEN [st EXCEPT !.current[1].project = line.text]
    ELSE st

\* if (current) sessions.push(current); return sessions
ParseFlush(st) ==
    st.sessions \o st.current

RECURSIVE ParseLines(_, _, _)
ParseLines(st, lines, i) ==
    IF i > Len(lines) THEN st
    ELSE ParseLines(ParseLine(st, lines[i]), lines, i + 1)

parseProofLog(lines) ==
    ParseFlush(ParseLines([sessions |-> <<>>, current |-> <<>>], lines, 1))

\* ------------------------------------------------------------ log files

\* The log directory: files[dateStr] is the file `${dateStr}.md`.
\* exists: existsSync answers true; readable: readFileSync returns the text
\* (it throws otherwise); lines: content.split('\n').
NoFile == [exists |-> FALSE, readable |-> FALSE, lines |-> <<>>]

FileKinds == {"missing", "unreadable", "alpha", "seven", "zero", "misdated", "mixed"}

FileOf(kind, dateStr) ==
    CASE kind = "missing" -> NoFile
      [] kind = "unreadable" -> [exists |-> TRUE, readable |-> FALSE, lines |-> <<>>]
      [] kind = "alpha" ->
            [exists |-> TRUE, readable |-> TRUE,
             lines |-> <<HeaderLine(dateStr), DurationLine(30), WhereLine("alpha")>>]
      [] kind = "seven" ->
            [exists |-> TRUE, readable |-> TRUE,
             lines |-> <<HeaderLine(dateStr), DurationLine(30), WhereLine("7")>>]
      [] kind = "zero" ->
            [exists |-> TRUE, readable |-> TRUE,
             lines |-> <<HeaderLine(dateStr), DurationLine(0), WhereLine("alpha")>>]
      [] kind = "misdated" ->
            [exists |-> TRUE, readable |-> TRUE,
             lines |-> <<HeaderLine(dateStr + 1), OtherLine, DurationLine(30)>>]
      [] kind = "mixed" ->
            [exists |-> TRUE, readable |-> TRUE,
             lines |-> <<HeaderLine(dateStr), HeaderLine(dateStr), DurationLine(30),
                         WhereLine("alpha")>>]

existsSync(fs, dateStr) ==
    dateStr \in DOMAIN fs /\ fs[dateStr].exists

\* --------------------------------------------------------------- load pass

\* for (const s of sessions) { ... }, from session i on; st = [d, minutesByDate,
\* projectsByDate]
RECURSIVE LoadSessions(_, _, _, _)
LoadSessions(st, ss, i, dateStr) ==
    IF i > Len(ss) THEN st
    ELSE LET s == ss[i]
         IN  IF s.durationMin = 0
             THEN LoadSessions([st EXCEPT !.d = addDays(@, 1)], ss, i + 1, dateStr)
             ELSE LET mins == MapPut(st.minutesByDate, dateStr,
                                     MapGet(st.minutesByDate, dateStr, 0) + s.durationMin)
                      old == MapGet(st.projectsByDate, dateStr, <<>>)
                      projs == IF s.project # null
                               THEN MapPut(st.projectsByDate, dateStr,
                                           ObjSet(old, s.project,
                                                  ObjGet(old, s.project, 0) + s.durationMin))
                               ELSE st.projectsByDate
                  IN  LoadSessions([d |-> st.d, minutesByDate |-> mins,
                                    projectsByDate |-> projs], ss, i + 1, dateStr)

\* one iteration of `while (toYMD(d) <= todayStr)`; a throwing read is caught
LoadBody(st, fs) ==
    LET dateStr == toYMD(st.d)
        after == IF existsSync(fs, dateStr) /\ fs[dateStr].readable
                 THEN LoadSessions(st, parseProofLog(fs[dateStr].lines), 1, dateStr)
                 ELSE st
    IN  [after EXCEPT !.d = addDays(@, 1)]

LoadState == [d |-> d, minutesByDate |-> minutesByDate, projectsByDate |-> projectsByDate]

\* the same iteration with the try/catch around the read left out
LoadIterationNoCatch ==
    /\ pc = "load"
    /\ toYMD(d) <= todayStr
    /\ IF existsSync(files, toYMD(d)) /\ ~files[toYMD(d)].readable
       THEN /\ pc' = "aborted"
            /\ UNCHANGED loadVars
       ELSE /\ LET st == LoadBody(LoadState, files)
               IN  /\ d' = st.d
                   /\ minutesByDate' = st.minutesByDate
                   /\ projectsByDate' = st.projectsByDate
            /\ loadDates' = Append(loadDates, toYMD(d))
            /\ pc' = "load"
    /\ UNCHANGED <<envVars, aggVars, topProject, gridVars, parseVars>>

LoadIteration ==
    /\ pc = "load"
    /\ toYMD(d) <= todayStr
    /\ LET st == LoadBody(LoadState, files)
       IN  /\ d' = st.d
           /\ minutesByDate' = st.minutesByDate
           /\ projectsByDate' = st.projectsByDate
    /\ loadDates' = Append(loadDates, toYMD(d))
    /\ pc' = "load"
    /\ UNCHANGED <<envVars, aggVars, topProject, gridVars, parseVars>>

LoadDone ==
    /\ pc = "load"
    /\ ~(toYMD(d) <= todayStr)
    /\ pc' = "agg"
    /\ UNCHANGED <<envVars, loadVars, aggVars, topProject, gridVars, parseVars>>

\* -------------------------------------------------------- aggregation pass

\* for (const [proj, min2] of Object.entries(projectsByDate[ds])), from entry i on
RECURSIVE AddProjects(_, _, _)
AddProjects(all, entries, i) ==
    IF i > Len(entries) THEN all
    ELSE AddProjects(ObjSet(all, entries[i][1], ObjGet(all, entries[i][1], 0) + entries[i][2]),
                     entries, i + 1)

\* one iteration of `while (toYMD(datesCursor) <= todayStr)` with today's zero
\* day resetting the streak as a past day does
AggBodyResetToday(st, mbd, pbd) ==
    LET ds == toYMD(st.datesCursor)
        min == MapGet(mbd, ds, 0)
        temp == IF min > 0 THEN st.tempStreak + 1 ELSE 0
    IN  [totalMinutes |-> st.totalMinutes + min,
         activeDays |-> IF min > 0 THEN st.activeDays + 1 ELSE st.activeDays,
         tempStreak |-> temp,
         longestStreak |-> IF temp > st.longestStreak THEN temp ELSE st.longestStreak,
         currentStreak |-> temp,
         allProjects |-> IF ds \in DOMAIN pbd
                         THEN AddProjects(st.allProjects, pbd[ds], 1)
                         ELSE st.allProjects,
         datesCursor |-> st.datesCursor + 1]

\* the same iteration with a zero day never resetting the running streak
AggBodyNoReset(st, mbd, pbd) ==
    LET ds == toYMD(st.datesCursor)
        min == MapGet(mbd, ds, 0)
        temp == IF min > 0 THEN st.tempStreak + 1 ELSE st.tempStreak
    IN  [totalMinutes |-> st.totalMinutes + min,
         activeDays |-> IF min > 0 THEN st.activeDays + 1 ELSE st.activeDays,
         tempStreak |-> temp,
         longestStreak |-> IF temp > st.longestStreak THEN temp ELSE st.longestStreak,
         currentStreak |-> IF min > 0 THEN temp
                           ELSE IF ds < todayStr THEN 0 ELSE st.currentStreak,
         allProjects |-> IF ds \in DOMAIN pbd
                         THEN AddProjects(st.allProjects, pbd[ds], 1)
                         ELSE st.allProjects,
         datesCursor |-> st.datesCursor + 1]

\* the same iteration with currentStreak taken only on days before today
AggBodyTodayExcluded(st, mbd, pbd) ==
    LET ds == toYMD(st.datesCursor)
        min == MapGet(mbd, ds, 0)
        temp == IF min > 0 THEN st.tempStreak + 1
                ELSE IF ds < todayStr THEN 0 ELSE st.tempStreak
    IN  [totalMinutes |-> st.totalMinutes + min,
         activeDays |-> IF min > 0 THEN st.activeDays + 1 ELSE st.activeDays,
         tempStreak |-> temp,
         longestStreak |-> IF temp > st.longestStreak THEN temp ELSE st.longestStreak,
         currentStreak |-> IF ds < todayStr THEN temp ELSE st.currentStreak,
         allProjects |-> IF ds \in DOMAIN pbd
                         THEN AddProjects(st.allProjects, pbd[ds], 1)
                         ELSE st.allProjects,
         datesCursor |-> st.datesCursor + 1]

\* one iteration of `while (toYMD(datesCursor) <= todayStr)`
AggBody(st, mbd, pbd) ==
    LET ds == toYMD(st.datesCursor)
        min == MapGet(mbd, ds, 0)
        active == min > 0
        temp == IF active THEN st.tempStreak + 1
                ELSE IF ds < todayStr THEN 0 ELSE st.tempStreak
    IN  [totalMinutes |-> IF active THEN st.totalMinutes + min ELSE st.totalMinutes,
         activeDays |-> IF active THEN st.activeDays + 1 ELSE st.activeDays,
         tempStreak |-> temp,
         longestStreak |-> IF active /\ temp > st.longestStreak
                           THEN temp ELSE st.longestStreak,
         currentStreak |-> IF active
                           THEN IF ds <= todayStr THEN temp ELSE st.currentStreak
                           ELSE IF ds < todayStr THEN 0 ELSE st.currentStreak,
         allProjects |-> IF ds \in DOMAIN pbd
                         THEN AddProjects(st.allProjects, pbd[ds], 1)
                         ELSE st.allProjects,
         datesCursor |-> st.datesCursor + 1]

AggState ==
    [totalMinutes |-> totalMinutes, activeDays |-> activeDays,
     tempStreak |-> tempStreak, longestStreak |-> longestStreak,
     currentStreak |-> currentStreak, allProjects |-> allProjects,
     datesCursor |-> datesCursor]

AggIteration ==
    /\ pc = "agg"
    /\ toYMD(datesCursor) <= todayStr
    /\ LET st == AggBody(AggState, minutesByDate, projectsByDate)
       IN  /\ totalMinutes' = st.totalMinutes
           /\ activeDays' = st.activeDays
           /\ tempStreak' = st.tempStreak
           /\ longestStreak' = st.longestStreak
           /\ currentStreak' = st.currentStreak
           /\ allProjects' = st.allProjects
           /\ datesCursor' = st.datesCursor
    /\ aggDates' = Append(aggDates, toYMD(datesCursor))
    /\ pc' = "agg"
    /\ UNCHANGED <<envVars, loadVars, topProject, gridVars, parseVars>>

AggDone ==
    /\ pc = "agg"
    /\ ~(toYMD(datesCursor) <= todayStr)
    /\ pc' = "top"
    /\ UNCHANGED <<envVars, loadVars, aggVars, topProject, gridVars, parseVars>>

\* const topProject = Object.entries(allProjects).sort(...)[0]
ComputeTopProject ==
    /\ pc = "top"
    /\ topProject' = TopEntry(allProjects)
    /\ pc' = "grid"
    /\ UNCHANGED <<envVars, loadVars, aggVars, gridVars, parseVars>>

\* ------------------------------------------------------------ heatmap cells

getLevel(minutes) ==
    IF minutes = 0 THEN 0
    ELSE IF minutes < 30 THEN 1
    ELSE IF minutes < 120 THEN 2
    ELSE IF minutes < 240 THEN 3
    ELSE 4

\* for (let row = 0; row < 7; row++) { ... }, from `row` on; st = [cells, weekCursor]
RECURSIVE GridRows(_, _, _)
GridRows(st, c, row) ==
    IF ~(row < DaysPerWeek) THEN st
    ELSE LET ds == toYMD(st.weekCursor)
             min == MapGet(minutesByDate, ds, 0)
             topProj == IF ds \in DOMAIN projectsByDate
                        THEN TopEntry(projectsByDate[ds]) ELSE <<>>
             cell == [x |-> c * STEP, y |-> row * STEP, level |-> getLevel(min),
                      date |-> ds, min |-> min,
                      tip |-> IF min > 0 /\ topProj # <<>> THEN topProj[1][1] ELSE ""]
         IN  IF ds > todayStr
             THEN GridRows([st EXCEPT !.weekCursor = addDays(@, 1)], c, row + 1)
             ELSE GridRows([cells |-> Append(st.cells, cell),
                            weekCursor |-> addDays(st.weekCursor, 1)], c, row + 1)

\* one iteration of `while (toYMD(weekCursor) <= todayStr)`: one column
GridColumn ==
    /\ pc = "grid"
    /\ toYMD(weekCursor) <= todayStr
    /\ LET st == GridRows([cells |-> cells, weekCursor |-> weekCursor], col, 0)
       IN  /\ cells' = st.cells
           /\ weekCursor' = st.weekCursor
    /\ col' = col + 1
    /\ pc' = "grid"
    /\ UNCHANGED <<envVars, loadVars, aggVars, topProject, parseVars>>

GridDone ==
    /\ pc = "grid"
    /\ ~(toYMD(weekCursor) <= todayStr)
    /\ pc' = "done"
    /\ UNCHANGED <<envVars, loadVars, aggVars, topProject, gridVars, parseVars>>

\* ------------------------------------------------------------ parser steps

ParseStep ==
    /\ pc = "parse"
    /\ lineIdx <= Len(content)
    /\ LET st == ParseLine([sessions |-> sessions, current |-> current], content[lineIdx])
       IN  /\ sessions' = st.sessions
           /\ current' = st.current
    /\ lineIdx' = lineIdx + 1
    /\ UNCHANGED <<envVars, loadVars, aggVars, topProject, gridVars, content, pc>>

ParseEnd ==
    /\ pc = "parse"
    /\ lineIdx > Len(content)
    /\ sessions' = ParseFlush([sessions |-> sessions, current |-> current])
    /\ pc' = "parsed"
    /\ UNCHANGED <<envVars, loadVars, aggVars, topProject, gridVars, content, lineIdx, current>>

\* ---------------------------------------------------------- specifications

\* the date strings of the last n days up to todayStr
LastDates(n) ==
    (todayStr - n + 1) .. todayStr

RangeDates ==
    toYMD(rangeStart) .. todayStr

RECURSIVE SeqOfRange(_, _)
SeqOfRange(a, b) ==
    IF a > b THEN <<>> ELSE <<a>> \o SeqOfRange(a + 1, b)

InitEnv ==
    /\ tz \in TzOffsets
    /\ today \in Todays
    /\ numWeeks \in 0 .. MaxWeeks
    /\ rangeStart = RangeStart(today, numWeeks)

InitCounters ==
    /\ totalMinutes = 0
    /\ activeDays = 0
    /\ longestStreak = 0
    /\ currentStreak = 0
    /\ tempStreak = 0
    /\ allProjects = <<>>
    /\ datesCursor = rangeStart
    /\ aggDates = <<>>
    /\ topProject = <<>>
    /\ cells = <<>>
    /\ col = 0
    /\ weekCursor = rangeStart

InitNoParse ==
    /\ content = <<>>
    /\ lineIdx = 1
    /\ sessions = <<>>
    /\ current = <<>>

\* the whole run, from the start of the load pass
Init ==
    /\ InitEnv
    /\ \E kinds \in [LastDates(FileSpan) -> FileKinds] :
           files = [s \in LastDates(FileSpan) |-> FileOf(kinds[s], s)]
    /\ d = rangeStart
    /\ minutesByDate = EmptyMap
    /\ projectsByDate = EmptyMap
    /\ loadDates = <<>>
    /\ InitCounters
    /\ InitNoParse
    /\ pc = "load"

Next ==
    \/ LoadIteration
    \/ LoadDone
    \/ AggIteration
    \/ AggDone
    \/ ComputeTopProject
    \/ GridColumn
    \/ GridDone

Spec == Init /\ [][Next]_vars

\* the aggregation pass over any per-day totals: the state the load pass
\* leaves when the logs of the active dates hold one 30-minute session each
InitAgg ==
    /\ InitEnv
    /\ \E active \in SUBSET (LastDates(AggSpan) \cap RangeDates) :
           /\ files = [s \in active |-> FileOf("alpha", s)]
           /\ minutesByDate = [s \in active |-> 30]
           /\ projectsByDate = [s \in active |-> <<(<<"alpha", 30>>)>>]
    /\ d = addDays(today, 1)
    /\ loadDates = SeqOfRange(toYMD(rangeStart), todayStr)
    /\ InitCounters
    /\ InitNoParse
    /\ pc = "agg"

NextAgg ==
    \/ AggIteration
    \/ AggDone
    \/ ComputeTopProject

SpecAgg == InitAgg /\ [][NextAgg]_vars

\* parseProofLog over any file content of at most MaxLines lines
LineAlphabet ==
    {HeaderLine(0), HeaderLine(1), OtherLine}
        \cup {DurationLine(m) : m \in Durations}
        \cup {WhereLine(p) : p \in Labels}

InitParse ==
    /\ tz = 9
    /\ today = 0
    /\ numWeeks = 0
    /\ rangeStart = RangeStart(today, numWeeks)
    /\ files = EmptyMap
    /\ d = rangeStart
    /\ minutesByDate = EmptyMap
    /\ projectsByDate = EmptyMap
    /\ loadDates = <<>>
    /\ InitCounters
    /\ content \in UNION {[1 .. n -> LineAlphabet] : n \in 0 .. MaxLines}
    /\ lineIdx = 1
    /\ sessions = <<>>
    /\ current = <<>>
    /\ pc = "parse"

NextParse ==
    \/ ParseStep
    \/ ParseEnd

SpecParse == InitParse /\ [][NextParse]_vars

\* ------------------------------------------------- reference definitions

Readable(s) ==
    existsSync(files, s) /\ files[s].readable

Active(s) ==
    MapGet(minutesByDate, s, 0) > 0

SetMax(S) ==
    CHOOSE x \in S : \A y \in S : y <= x

SetMin(S) ==
    CHOOSE x \in S : \A y \in S : x <= y

HeaderIdx(lines) ==
    {i \in 1 .. Len(lines) : lines[i].kind = "header"}

\* the header line that opened the block line i lies in; 0 before any header
BlockOf(lines, i) ==
    LET hs == {h \in HeaderIdx(lines) : h <= i}
    IN  IF hs = {} THEN 0 ELSE SetMax(hs)

\* the value of the last line of `kind` in the block opened at h, or dflt
BlockLast(lines, h, kind, dflt) ==
    LET js == {j \in 1 .. Len(lines) : BlockOf(lines, j) = h /\ lines[j].kind = kind}
    IN  IF js = {} THEN dflt
        ELSE IF kind = "duration" THEN lines[SetMax(js)].min ELSE lines[SetMax(js)].text

\* one session per header line, in input order
ExpectedSessions(lines) ==
    LET hs == HeaderIdx(lines)
        nth(n) == CHOOSE h \in hs : Cardinality({g \in hs : g <= h}) = n
    IN  [n \in 1 .. Cardinality(hs) |->
            [date |-> lines[nth(n)].date,
             durationMin |-> BlockLast(lines, nth(n), "duration", 0),
             project |-> BlockLast(lines, nth(n), "where", null)]]

RECURSIVE KeepLines(_, _)
KeepLines(lines, i) ==
    IF i > Len(lines) THEN <<>>
    ELSE LET h == BlockOf(lines, i)
             rest == KeepLines(lines, i + 1)
         IN  IF h > 0 /\ BlockLast(lines, h, "duration", 0) = 0
             THEN rest ELSE <<lines[i]>> \o rest

\* the same files with every zero/missing-duration session block removed
StripZero(fs) ==
    [s \in DOMAIN fs |-> [fs[s] EXCEPT !.lines = KeepLines(fs[s].lines, 1)]]

RECURSIVE RunLoad(_, _)
RunLoad(st, fs) ==
    IF toYMD(st.d) <= todayStr THEN RunLoad(LoadBody(st, fs), fs) ELSE st

RECURSIVE RunAgg(_, _, _)
RunAgg(st, mbd, pbd) ==
    IF toYMD(st.datesCursor) <= todayStr THEN RunAgg(AggBody(st, mbd, pbd), mbd, pbd)
    ELSE st

\* what the load and aggregation passes produce from the files fs
RunBoth(fs) ==
    LET ld == RunLoad([d |-> rangeStart, minutesByDate |-> EmptyMap,
                       projectsByDate |-> EmptyMap], fs)
        ag == RunAgg([totalMinutes |-> 0, activeDays |-> 0, tempStreak |-> 0,
                      longestStreak |-> 0, currentStreak |-> 0, allProjects |-> <<>>,
                      datesCursor |-> rangeStart], ld.minutesByDate, ld.projectsByDate)
    IN  [minutesByDate |-> ld.minutesByDate, projectsByDate |-> ld.projectsByDate,
         totalMinutes |-> ag.totalMinutes, activeDays |-> ag.activeDays,
         longestStreak |-> ag.longestStreak, currentStreak |-> ag.currentStreak,
         allProjects |-> ag.allProjects]

Produced ==
    [minutesByDate |-> minutesByDate, projectsByDate |-> projectsByDate,
     totalMinutes |-> totalMinutes, activeDays |-> activeDays,
     longestStreak |-> longestStreak, currentStreak |-> currentStreak,
     allProjects |-> allProjects]

\* every session of the readable files of the range with a nonzero duration,
\* chronological by file date, then by position in the file
RECURSIVE SessionsFrom(_)
SessionsFrom(s) ==
    IF s > todayStr THEN <<>>
    ELSE LET ss == IF Readable(s) THEN ExpectedSessions(files[s].lines) ELSE <<>>
             nz == {i \in 1 .. Len(ss) : ss[i].durationMin # 0}
             nth(n) == CHOOSE i \in nz : Cardinality({j \in nz : j <= i}) = n
         IN  [n \in 1 .. Cardinality(nz) |-> ss[nth(n)]] \o SessionsFrom(s + 1)

CountedSessions == SessionsFrom(toYMD(rangeStart))

RECURSIVE SumSeq(_, _)
SumSeq(q, i) ==
    IF i > Len(q) THEN 0 ELSE q[i] + SumSeq(q, i + 1)

\* the minutes of the sessions of ss that `keep` selects
SumMinutes(ss, keep(_)) ==
    SumSeq([i \in 1 .. Len(ss) |-> IF keep(ss[i]) THEN ss[i].durationMin ELSE 0], 1)

\* the calendar days from the Sunday at or before today - 7 * numWeeks to today
ExpectedStart ==
    CHOOSE s \in (today - DaysPerWeek * numWeeks - (DaysPerWeek - 1))
                     .. (today - DaysPerWeek * numWeeks) : s % DaysPerWeek = 0

ExpectedRange == SeqOfRange(ExpectedStart, today)

CellDates == [i \in 1 .. Len(cells) |-> cells[i].date]

NoFiles == \A s \in DOMAIN files : ~files[s].exists

\* the longest run of consecutive active dates among the dates from..upto
LongestRun(from, upto) ==
    LET runs == {r \in (from .. upto) \X (from .. upto) :
                    r[1] <= r[2] /\ \A s \in r[1] .. r[2] : Active(s)}
    IN  IF runs = {} THEN 0 ELSE SetMax({r[2] - r[1] + 1 : r \in runs})

\* ------------------------------------------------------------------ claims

\* C1: zero/missing-duration sessions are excluded and perturb nothing: the
\* per-day totals, per-project totals, total minutes, active days and both
\* streaks equal those produced from the files with those sessions removed.
C1_ZeroSessionsInert ==
    pc = "done" => Produced = RunBoth(StripZero(files))

\* C2 as stated: a zero-minute date is never counted active, and every
\* zero-minute date up to and including today leaves the running streak at 0.
C2_ZeroDayResetsIncludingToday ==
    [][(pc = "agg" /\ toYMD(datesCursor) <= todayStr /\ ~Active(toYMD(datesCursor)))
          => /\ activeDays' = activeDays
             /\ totalMinutes' = totalMinutes
             /\ tempStreak' = 0]_vars

\* C2 amended: a zero-minute date is never counted active; a zero-minute date
\* strictly before today leaves the running streak and the current streak at
\* 0; a zero-minute today leaves both streak counters as they were.
C2_ZeroDayResetsBeforeToday ==
    [][(pc = "agg" /\ toYMD(datesCursor) <= todayStr /\ ~Active(toYMD(datesCursor)))
          => /\ activeDays' = activeDays
             /\ totalMinutes' = totalMinutes
             /\ toYMD(datesCursor) < todayStr => tempStreak' = 0 /\ currentStreak' = 0
             /\ toYMD(datesCursor) = todayStr =>
                    tempStreak' = tempStreak /\ currentStreak' = currentStreak]_vars

\* C2 witness: the pass is over, today had zero minutes and did not reset a
\* running streak, and an earlier zero-minute day lies in the range.
C2_Witness ==
    /\ pc = "top"
    /\ ~Active(todayStr)
    /\ tempStreak = 2
    /\ currentStreak = 2
    /\ \E s \in RangeDates : s < todayStr /\ ~Active(s)

\* C3: the load, aggregation and grid passes each iterate exactly the calendar
\* days from the Sunday at or before today - 7N through today, once each, in
\* order, under the date string of that same calendar day.
C3_PassesIterateExpectedRange ==
    pc = "done" =>
        /\ loadDates = ExpectedRange
        /\ aggDates = ExpectedRange
        /\ CellDates = ExpectedRange

\* C4: after every step of the aggregation pass longestStreak is the length
\* of the longest run of consecutive active dates processed so far, hence of
\* the whole range when the pass ends.
C4_LongestStreakIsLongestRun ==
    pc \in {"agg", "top"} =>
        longestStreak = LongestRun(toYMD(rangeStart), toYMD(datesCursor) - 1)

\* C4 witness: the pass is over and a single past zero-minute day lies
\* strictly between two active runs, of lengths 2 and 1.
C4_Witness ==
    /\ pc = "top"
    /\ longestStreak = 2
    /\ activeDays = 3
    /\ \E s \in RangeDates :
           ~Active(s) /\ Active(s - 1) /\ Active(s - 2) /\ Active(s + 1) /\ s + 1 <= todayStr

\* C5: when the last k dates up to today are active and the date before them
\* is inactive or outside the range, the pass ends with currentStreak = k and
\* longestStreak >= k; and longestStreak >= currentStreak after every step.
C5_CurrentStreakEndsAtToday ==
    /\ longestStreak >= currentStreak
    /\ pc = "top" =>
           \A k \in 1 .. Cardinality(RangeDates) :
               ( /\ \A s \in (todayStr - k + 1) .. todayStr : Active(s)
                 /\ ~Active(todayStr - k) \/ todayStr - k < toYMD(rangeStart) )
                   => currentStreak = k /\ longestStreak >= k

\* C5 witness: three consecutive active days followed by an active today,
\* after an inactive day inside the range.
C5_Witness ==
    /\ pc = "top"
    /\ \A s \in (todayStr - 3) .. todayStr : Active(s)
    /\ todayStr - 4 \in RangeDates
    /\ ~Active(todayStr - 4)
    /\ currentStreak = 4

\* C6: the daily total of a date D is the sum of the durations of the parsed
\* sessions whose header date is D, and the per-day project map of D sums
\* only those sessions.
C6_DailyTotalByOwnDate ==
    pc = "done" =>
        \A D \in toYMD(rangeStart) .. (todayStr + 1) :
            /\ MapGet(minutesByDate, D, 0)
                   = SumMinutes(CountedSessions, LAMBDA s : s.date = D)
            /\ \A p \in Labels :
                   ObjGet(MapGet(projectsByDate, D, <<>>), p, 0)
                       = SumMinutes(CountedSessions,
                                    LAMBDA s : s.date = D /\ s.project = p)

\* C7: topProject is the label with the greatest total over the range, the
\* first encountered in aggregation order among equals, and is absent exactly
\* when no session with a nonzero duration carries a label.
C7_TopProjectFirstEncountered ==
    pc = "done" =>
        LET labelled == {i \in 1 .. Len(CountedSessions) : CountedSessions[i].project # null}
            total(p) == SumMinutes(CountedSessions, LAMBDA s : s.project = p)
            first(p) == SetMin({i \in labelled : CountedSessions[i].project = p})
            seen == {CountedSessions[i].project : i \in labelled}
            best == {p \in seen : \A q \in seen : total(q) <= total(p)}
            top == CHOOSE p \in best : \A q \in best : first(p) <= first(q)
        IN  IF labelled = {} THEN topProject = <<>>
            ELSE topProject = <<(<<top, total(top)>>)>>

\* C8: a date whose log is missing or unreadable has no sessions: the step
\* that visits it changes no total and moves on to the next date, the run is
\* never aborted, the date's total stays 0 and it is not counted as active.
C8_UnreadableFileSkipped ==
    /\ [][(pc = "load" /\ toYMD(d) <= todayStr /\ ~Readable(toYMD(d)))
             => /\ minutesByDate' = minutesByDate
                /\ projectsByDate' = projectsByDate
                /\ d' = addDays(d, 1)
                /\ pc' = "load"]_vars
    /\ [](pc # "aborted")
    /\ [](\A s \in RangeDates : ~Readable(s) => ~Active(s))
    /\ [](pc = "done" => activeDays = Cardinality({s \in RangeDates : Active(s)}))

\* C8 witness: the run is over, yesterday's log was unreadable, the day
\* before had no log, and today's log was loaded after them.
C8_Witness ==
    /\ pc = "done"
    /\ numWeeks = 1
    /\ existsSync(files, todayStr - 1)
    /\ ~files[todayStr - 1].readable
    /\ ~existsSync(files, todayStr - 2)
    /\ minutesByDate = (todayStr :> 30)
    /\ activeDays = 1

\* C9 as stated: week count 1 with no log files gives zero totals and streaks
\* and a grid of exactly 7 cells, whatever weekday today is.
C9_OneWeekSevenCells ==
    (pc = "done" /\ numWeeks = 1 /\ NoFiles) =>
        /\ totalMinutes = 0
        /\ activeDays = 0
        /\ longestStreak = 0
        /\ currentStreak = 0
        /\ Len(cells) = 7

\* C9 amended: week count 1 with no log files gives zero totals and streaks
\* and a grid of 8 + w cells, w the weekday index of today (0 = Sunday): one
\* cell per date from the range start through today, none skipped or doubled.
C9_OneWeekEightPlusWeekdayCells ==
    (pc = "done" /\ numWeeks = 1 /\ NoFiles) =>
        /\ totalMinutes = 0
        /\ activeDays = 0
        /\ longestStreak = 0
        /\ currentStreak = 0
        /\ Len(cells) = DaysPerWeek + 1 + getDay(today)
        /\ CellDates = SeqOfRange(toYMD(today - DaysPerWeek - getDay(today)), todayStr)

\* C9 witness: the run is over for week count 1 without files on a Saturday,
\* with 14 cells.
C9_Witness ==
    /\ pc = "done"
    /\ numWeeks = 1
    /\ NoFiles
    /\ getDay(today) = 6
    /\ Len(cells) = 14

\* C10: parseProofLog yields exactly one session per header line, in input
\* order, holding the last duration and label of its block; lines before the
\* first header and unrecognized lines change nothing; the open session is
\* flushed once at the end.  Stated for every prefix of the input.
C10_OneSessionPerHeader ==
    /\ pc = "parse" =>
           sessions \o current = ExpectedSessions(SubSeq(content, 1, lineIdx - 1))
    /\ pc = "parsed" => sessions = ExpectedSessions(content)
    /\ pc = "parse" => parseProofLog(content) = ExpectedSessions(content)

\* C10 witness: the parse is over; the input began with a duration line that
\* no session was open for, and held two headers, the second block with a
\* label.
C10_Witness ==
    /\ pc = "parsed"
    /\ Len(content) = 4
    /\ content[1] = DurationLine(30)
    /\ content[2].kind = "header"
    /\ content[3].kind = "header"
    /\ content[4] = WhereLine("7")
    /\ Len(sessions) = 2
    /\ sessions[1].durationMin = 0
    /\ sessions[2].project = "7"

====
